---- MODULE Spec2Model ----
(***************************************************************************)
(* Model of src/server.js, the Ecowitt vineyard monitoring API.            *)
(*                                                                         *)
(* The file holds three revisions of the server, each a complete program   *)
(* with its own module-level store:                                        *)
(*   "v7"    lines    1-422   webhook ingestion + read endpoints           *)
(*   "v11"   lines  423-1023  catch-all webhook ingestion + cloud poller   *)
(*   "cloud" lines 1025-1446  cloud poller (3 attempts) + read endpoints   *)
(* The variable rev says which revision is running; it never changes.      *)
(*                                                                         *)
(* Numbers are exact rationals kept as integers in units of 1/900, so      *)
(* that a payload value with two decimals, its Fahrenheit->Celsius         *)
(* conversion (v-32)*5/9 and its rounding to one decimal are all exact.    *)
(* Time is counted in hours.                                               *)
(***************************************************************************)
EXTENDS Integers, Sequences, FiniteSets, TLC

VARIABLES
    rev,          \* the revision of server.js that runs
    sensorData,   \* const sensorData = []            (26, 558, 1048)
    lastRawData,  \* let lastRawData = null           (30, 562, 1050)
    now,          \* the clock read by new Date() / Date.now()
    inflight,     \* poll cycles suspended at an await, by position
    res,          \* the response to the most recent HTTP request
    appended      \* history: every reading pushed to sensorData, in order

vars == <<rev, sensorData, lastRawData, now, inflight, res, appended>>

----------------------------------------------------------------------------
(* Bounds of the model                                                     *)

\* const MAX_READINGS = 10000 (27, 559, 1049), scaled down
MAX_READINGS == 2
\* the clock runs from 0 to MaxTime hours
MaxTime == 2
\* poll cycles that may be suspended at the same time
MaxInFlight == 2
\* stored appends after which no further ingest is taken
MaxAppends == MAX_READINGS + 1

----------------------------------------------------------------------------
(* JavaScript values                                                       *)

Undef == [k |-> "undefined", v |-> 0, s |-> ""]
Null == [k |-> "null", v |-> 0, s |-> ""]
NaN == [k |-> "NaN", v |-> 0, s |-> ""]
Num(n) == [k |-> "number", v |-> n, s |-> ""]
\* a string holding the decimal text of the number n (n in units of 1/900)
NumStr(n) == [k |-> "string", v |-> n, s |-> "#"]
\* a string holding the non-numeric text t ("" is the empty string)
Text(t) == [k |-> "string", v |-> 0, s |-> t]
\* an object whose own property toString is not callable, as JSON.parse
\* builds from {"toString": 1}: ToString of it throws a TypeError
BadObj == [k |-> "object", v |-> 0, s |-> ""]
\* the completion of an expression that threw
Thrown == [k |-> "throw", v |-> 0, s |-> ""]
\* a channel object that is missing from a nested cloud payload
NoObj == [k |-> "noobj", v |-> 0, s |-> ""]

\* whole number n, and the number h/100, in units of 1/900
Unit(n) == n * 900
Hundredths(h) == h * 9

\* ToBoolean
Truthy(x) ==
    CASE x.k = "number" -> x.v # 0
      [] x.k = "string" -> x.s # ""
      [] x.k = "object" -> TRUE
      [] OTHER -> FALSE

\* parseFloat(x): ToString(x), then the longest numeric prefix
ParseFloat(x) ==
    CASE x.k = "number" -> x
      [] x.k = "string" -> IF x.s = "#" THEN Num(x.v) ELSE NaN
      [] x.k = "object" -> Thrown
      [] x.k = "throw" -> Thrown
      [] OTHER -> NaN

\* (x - 32) * 5/9 on a number or NaN
FtoC(x) ==
    CASE x.k = "number" -> Num(((x.v - Unit(32)) * 5) \div 9)
      [] OTHER -> x

\* a || b
Or(a, b) == IF Truthy(a) THEN a ELSE b

----------------------------------------------------------------------------
(* Payloads                                                                *)

\* the keys of a flat payload that parseEcowittData reads
FlatFields ==
    {"tempf", "temp1f", "tempinf", "temp",
     "humidity", "humidity1", "humidityin",
     "soilmoisture1", "soilhum1", "soilmoisture2", "soilhum2",
     "leafwetness_ch1", "leafwetness1", "leafwet_ch1",
     "stationtype", "PASSKEY", "passkey", "ID", "dateutc"}

\* the keys a flat payload may hold: "other" is a key no parser reads
PayloadKeys == FlatFields \cup {"other"}

\* the flat payload with the keys of f; a missing key reads as undefined
Flat(f) ==
    [shape |-> "flat",
     d |-> [x \in PayloadKeys |-> IF x \in DOMAIN f THEN f[x] ELSE Undef]]

\* Object.keys(data).length > 0
HasKeys(data) == \E x \in DOMAIN data.d : data.d[x] # Undef

\* the channels of a nested cloud payload that parseEcowittCloudData reads;
\* a channel is NoObj when the object (or its parent) is missing, and else
\* holds the content of its .value property
Channels ==
    {"indoor.temperature", "indoor.humidity",
     "outdoor.temperature", "outdoor.humidity",
     "soil_ch1.soilmoisture", "soil_ch2.soilmoisture",
     "leaf_ch1.leaf_wetness",
     "soil_ch[0].humidity", "soil_ch[1].humidity", "leaf_ch[0].humidity"}

Nested(f) ==
    [shape |-> "nested",
     d |-> [x \in Channels |-> IF x \in DOMAIN f THEN f[x] ELSE NoObj]]

\* data.a && data.a.b: the channel object is there
HasObj(data, ch) == data.d[ch].k # "noobj"

----------------------------------------------------------------------------
(* Readings                                                                *)

Reading(t, data, temperature, humidity, sm1, sm2, leaf, st, pk, du) ==
    [timestamp |-> t, raw |-> data,
     temperature |-> temperature, humidity |-> humidity,
     soilMoisture1 |-> sm1, soilMoisture2 |-> sm2, leafWetness |-> leaf,
     stationtype |-> st, passkey |-> pk, dateutc |-> du]

\* the metric and metadata fields of a reading
ParsedFields ==
    {"temperature", "humidity", "soilMoisture1", "soilMoisture2",
     "leafWetness", "stationtype", "passkey", "dateutc"}

\* a call of a parser throws when one of the expressions it evaluates does
Threw(parsed) == \E f \in ParsedFields : parsed[f].k = "throw"

\* c ? parseFloat(a) : rest
Cond(a, rest) == IF Truthy(a) THEN ParseFloat(a) ELSE rest

\* parseEcowittData trying temp before the Fahrenheit fields
parseEcowittData_tempFirst(data, t) ==
    LET d == data.d
        temperature ==
            IF Truthy(d["temp"]) THEN ParseFloat(d["temp"])
            ELSE IF Truthy(d["tempf"]) THEN FtoC(ParseFloat(d["tempf"]))
            ELSE IF Truthy(d["temp1f"]) THEN FtoC(ParseFloat(d["temp1f"]))
            ELSE IF Truthy(d["tempinf"]) THEN FtoC(ParseFloat(d["tempinf"]))
            ELSE Undef
        humidity ==
            IF Truthy(d["humidity"]) THEN ParseFloat(d["humidity"])
            ELSE IF Truthy(d["humidity1"]) THEN ParseFloat(d["humidity1"])
            ELSE IF Truthy(d["humidityin"]) THEN ParseFloat(d["humidityin"])
            ELSE Undef
        sm1 == Cond(d["soilmoisture1"], Cond(d["soilhum1"], Null))
        sm2 == Cond(d["soilmoisture2"], Cond(d["soilhum2"], Null))
        leaf == Cond(d["leafwetness_ch1"],
                     Cond(d["leafwetness1"], Cond(d["leafwet_ch1"], Null)))
        st == Or(d["stationtype"], Text("Unknown"))
        pk == Or(d["PASSKEY"], Or(d["passkey"], Or(d["ID"], Text("Unknown"))))
    IN  Reading(t, data, temperature, humidity, sm1, sm2, leaf,
                st, pk, d["dateutc"])

\* function parseEcowittData(data), with new Date() = t
parseEcowittData(data, t) ==
    LET d == data.d
        temperature ==
            IF Truthy(d["tempf"]) THEN FtoC(ParseFloat(d["tempf"]))
            ELSE IF Truthy(d["temp1f"]) THEN FtoC(ParseFloat(d["temp1f"]))
            ELSE IF Truthy(d["tempinf"]) THEN FtoC(ParseFloat(d["tempinf"]))
            ELSE IF Truthy(d["temp"]) THEN ParseFloat(d["temp"])
            ELSE Undef
        humidity ==
            IF Truthy(d["humidity"]) THEN ParseFloat(d["humidity"])
            ELSE IF Truthy(d["humidity1"]) THEN ParseFloat(d["humidity1"])
            ELSE IF Truthy(d["humidityin"]) THEN ParseFloat(d["humidityin"])
            ELSE Undef
        sm1 == Cond(d["soilmoisture1"], Cond(d["soilhum1"], Null))
        sm2 == Cond(d["soilmoisture2"], Cond(d["soilhum2"], Null))
        leaf == Cond(d["leafwetness_ch1"],
                     Cond(d["leafwetness1"], Cond(d["leafwet_ch1"], Null)))
        st == Or(d["stationtype"], Text("Unknown"))
        pk == Or(d["PASSKEY"], Or(d["passkey"], Or(d["ID"], Text("Unknown"))))
    IN  Reading(t, data, temperature, humidity, sm1, sm2, leaf,
                st, pk, d["dateutc"])

\* x.toFixed(1) read back by parseFloat: the nearest multiple of 1/10,
\* a tie going away from zero
ToFixed1(x) ==
    CASE x.k = "number" ->
            IF x.v >= 0 THEN Num(((x.v + 45) \div 90) * 90)
            ELSE Num(0 - (((0 - x.v) + 45) \div 90) * 90)
      [] OTHER -> x

\* function parseEcowittCloudData(data) of v11, with new Date() = t
parseEcowittCloudData_v11(data, t) ==
    LET d == data.d
        outT == IF HasObj(data, "outdoor.temperature")
                THEN ParseFloat(d["outdoor.temperature"]) ELSE Undef
        outH == IF HasObj(data, "outdoor.humidity")
                THEN ParseFloat(d["outdoor.humidity"]) ELSE Undef
        temperature ==
            IF ~Truthy(outT) /\ outT.k # "throw"
               /\ HasObj(data, "indoor.temperature")
            THEN ParseFloat(d["indoor.temperature"]) ELSE outT
        humidity ==
            IF ~Truthy(outH) /\ outH.k # "throw"
               /\ HasObj(data, "indoor.humidity")
            THEN ParseFloat(d["indoor.humidity"]) ELSE outH
        sm1 == IF HasObj(data, "soil_ch[0].humidity")
               THEN ParseFloat(d["soil_ch[0].humidity"]) ELSE Undef
        sm2 == IF HasObj(data, "soil_ch[1].humidity")
               THEN ParseFloat(d["soil_ch[1].humidity"]) ELSE Undef
        leaf == IF HasObj(data, "leaf_ch[0].humidity")
                THEN ParseFloat(d["leaf_ch[0].humidity"]) ELSE Undef
    IN  Reading(t, data, temperature, humidity, sm1, sm2, leaf,
                Undef, Undef, Undef)

\* data.a && data.a.b && data.a.b.value
HasValue(data, ch) == HasObj(data, ch) /\ Truthy(data.d[ch])

\* parseEcowittCloudData of the cloud revision reading the outdoor block
\* before the indoor block, so that the indoor values overwrite
parseEcowittCloudData_cloud_indoorLast(data, t) ==
    LET d == data.d
        outT == IF HasValue(data, "outdoor.temperature")
                THEN ToFixed1(ParseFloat(d["outdoor.temperature"])) ELSE Undef
        outH == IF HasValue(data, "outdoor.humidity")
                THEN ParseFloat(d["outdoor.humidity"]) ELSE Undef
        temperature ==
            IF outT.k # "throw" /\ HasValue(data, "indoor.temperature")
            THEN ToFixed1(ParseFloat(d["indoor.temperature"])) ELSE outT
        humidity ==
            IF outH.k # "throw" /\ HasValue(data, "indoor.humidity")
            THEN ParseFloat(d["indoor.humidity"]) ELSE outH
        sm1 == IF HasValue(data, "soil_ch1.soilmoisture")
               THEN ToFixed1(ParseFloat(d["soil_ch1.soilmoisture"])) ELSE Undef
        sm2 == IF HasValue(data, "soil_ch2.soilmoisture")
               THEN ToFixed1(ParseFloat(d["soil_ch2.soilmoisture"])) ELSE Undef
        leaf == IF HasValue(data, "leaf_ch1.leaf_wetness")
                THEN ToFixed1(ParseFloat(d["leaf_ch1.leaf_wetness"])) ELSE Undef
    IN  Reading(t, data, temperature, humidity, sm1, sm2, leaf,
                Undef, Undef, Undef)

\* function parseEcowittCloudData(data) of the cloud revision
parseEcowittCloudData_cloud(data, t) ==
    LET d == data.d
        inT == IF HasValue(data, "indoor.temperature")
               THEN ToFixed1(ParseFloat(d["indoor.temperature"])) ELSE Undef
        inH == IF HasValue(data, "indoor.humidity")
               THEN ParseFloat(d["indoor.humidity"]) ELSE Undef
        temperature ==
            IF inT.k # "throw" /\ HasValue(data, "outdoor.temperature")
            THEN ToFixed1(ParseFloat(d["outdoor.temperature"])) ELSE inT
        humidity ==
            IF inH.k # "throw" /\ HasValue(data, "outdoor.humidity")
            THEN ParseFloat(d["outdoor.humidity"]) ELSE inH
        sm1 == IF HasValue(data, "soil_ch1.soilmoisture")
               THEN ToFixed1(ParseFloat(d["soil_ch1.soilmoisture"])) ELSE Undef
        sm2 == IF HasValue(data, "soil_ch2.soilmoisture")
               THEN ToFixed1(ParseFloat(d["soil_ch2.soilmoisture"])) ELSE Undef
        leaf == IF HasValue(data, "leaf_ch1.leaf_wetness")
                THEN ToFixed1(ParseFloat(d["leaf_ch1.leaf_wetness"])) ELSE Undef
    IN  Reading(t, data, temperature, humidity, sm1, sm2, leaf,
                Undef, Undef, Undef)

\* parseEcowittCloudData of the running revision
parseEcowittCloudData(r, data, t) ==
    IF r = "v11" THEN parseEcowittCloudData_v11(data, t)
    ELSE parseEcowittCloudData_cloud(data, t)

----------------------------------------------------------------------------
(* The store                                                               *)

\* the condition under which a parsed reading is stored
HasSensorData(parsed) ==
    \/ parsed.temperature # Undef
    \/ parsed.soilMoisture1 # Null
    \/ parsed.soilMoisture2 # Null
    \/ parsed.leafWetness # Null

\* StoreReading without the eviction
StoreReading_noShift(store, parsed) == Append(store, parsed)

\* StoreReading with pop() in place of shift(): the newest entry is evicted
StoreReading_pop(store, parsed) ==
    LET pushed == Append(store, parsed)
    IN  IF Len(pushed) > MAX_READINGS
        THEN SubSeq(pushed, 1, Len(pushed) - 1) ELSE pushed

\* sensorData.push(parsed); if (sensorData.length > MAX_READINGS) shift()
StoreReading(store, parsed) ==
    LET pushed == Append(store, parsed)
    IN  IF Len(pushed) > MAX_READINGS THEN Tail(pushed) ELSE pushed

\* RawData recording an empty object in place of the payload
RawData_noPayload(t, source, path, data) ==
    [null |-> FALSE, timestamp |-> t, source |-> source, path |-> path,
     data |-> [shape |-> "flat", d |-> [x \in PayloadKeys |-> Undef]]]

\* lastRawData = { timestamp: new Date().toISOString(), [source | path], data }
RawData(t, source, path, data) ==
    [null |-> FALSE, timestamp |-> t, source |-> source, path |-> path,
     data |-> data]
\* let lastRawData = null
NullRawData ==
    [null |-> TRUE, timestamp |-> 0, source |-> "", path |-> "",
     data |-> [shape |-> "none", d |-> <<>>]]

----------------------------------------------------------------------------
(* Inputs: the requests and cloud responses the environment may send       *)

\* {} : a request without parameters
EmptyFlat == [shape |-> "flat", d |-> [x \in PayloadKeys |-> Undef]]
\* a payload with a key and no metric
NoMetricFlat == Flat([other |-> Text("x")])
\* tempf=68.00&soilmoisture1=45&stationtype=GW1200B
TempFlat ==
    Flat([tempf |-> NumStr(Hundredths(6800)),
          soilmoisture1 |-> NumStr(Unit(45)),
          stationtype |-> Text("GW1200B")])
\* {"tempf": {"toString": 1}}, a JSON body
BadObjFlat == Flat([tempf |-> BadObj])

\* what a query string can carry (strings only), and what a body can
QueryPayloads == {EmptyFlat, NoMetricFlat, TempFlat}
BodyPayloads == QueryPayloads \cup {BadObjFlat}

Methods == {"GET", "POST"}

\* req.method === 'GET' ? req.query : req.body
RequestData(method) == IF method = "GET" THEN QueryPayloads ELSE BodyPayloads

\* the data object of a cloud response without any sensor channel
EmptyNested == [shape |-> "nested", d |-> [x \in Channels |-> NoObj]]
\* outdoor temperature 72.34 and soil channel 1 at 45.0, in both layouts
TempNested ==
    Nested(("outdoor.temperature" :> NumStr(Hundredths(7234))) @@
           [x \in {"soil_ch1.soilmoisture", "soil_ch[0].humidity"} |->
               NumStr(Unit(45))])

CloudPayloads == {EmptyNested, TempNested}

\* how one fetch of the cloud API ends: "reject" is a rejected fetch() or
\* response.json() or a body of null (reading data.code throws); otherwise
\* the body is an envelope {code, data}, code 0 or not, data there or not
FetchOutcomes ==
    {[kind |-> "reject", code |-> 0, hasData |-> FALSE, data |-> EmptyNested]}
    \cup {[kind |-> "envelope", code |-> c, hasData |-> FALSE,
           data |-> EmptyNested] : c \in {0, 1}}
    \cup {[kind |-> "envelope", code |-> c, hasData |-> TRUE, data |-> p] :
              c \in {0, 1}, p \in CloudPayloads}

----------------------------------------------------------------------------
(* Routing: the first matching route that answers, in registration order   *)

Revisions == {"v7", "v11", "cloud"}

WU == "/weatherstation/updateweatherstation.php"
Paths == {"/", "/api/ecowitt", "/data/report"}

\* req.path.includes('favicon') || includes('.js') || includes('.css')
\* || req.path === '/'
IsStatic(path) == path \in {"/", "/favicon.ico"}

\* the routes of v7 and v11 below the catch-all, and those of cloud
Dedicated(r, method, path) ==
    CASE path = "/" /\ method = "GET" -> "health"
      [] path = "/data/report" /\ r = "v11" -> "report"
      [] path = WU /\ r \in {"v7", "v11"} -> "wunderground"
      [] path = "/api/ecowitt" /\ method = "POST" /\ r \in {"v7", "v11"} ->
            "postEcowitt"
      [] path = "/api/ecowitt" /\ method = "GET" /\ r \in {"v7", "v11"} ->
            "getEcowitt"
      [] path = "/api/data/latest" /\ method = "GET" -> "latest"
      [] path = "/api/data/history" /\ method = "GET" -> "history"
      [] path = "/api/data/stats" /\ method = "GET" -> "stats"
      [] path = "/api/alerts" /\ method = "GET" -> "alerts"
      [] path = "/api/debug" /\ method = "GET" -> "debug"
      [] OTHER -> "notFound"

\* v7: app.all('*') logs and calls next(); v11: app.all('/*') answers every
\* path that is not static and calls next() only for the static ones
Route(r, method, path) ==
    IF path = "/" /\ method = "GET" THEN "health"
    ELSE IF r = "v11" /\ ~IsStatic(path) THEN "catchAll"
    ELSE Dedicated(r, method, path)

----------------------------------------------------------------------------
(* Ingestion                                                               *)

\* a response, with the operation and the request data it answers
Response(op, arg, status, body) ==
    [op |-> op, arg |-> arg, status |-> status, body |-> body]
NoResponse == Response("none", <<>>, 0, "")

\* the model takes ingests until MaxAppends readings have been pushed
CanIngest == Len(appended) < MaxAppends

\* the body shared by the webhook handlers: set lastRawData, parse, store
\* when a sensor value was found, answer ok; an exception of the parser
\* leaves the handler after lastRawData was set and is answered with 500
Ingest(raw, parsed, ok) ==
    /\ lastRawData' = raw
    /\ IF Threw(parsed)
       THEN /\ UNCHANGED <<sensorData, appended>>
            /\ res' = Response("ingest", raw.data, 500, "error")
       ELSE /\ res' = Response("ingest", raw.data, 200, ok)
            /\ IF HasSensorData(parsed)
               THEN /\ sensorData' = StoreReading(sensorData, parsed)
                    /\ appended' = Append(appended, parsed)
               ELSE UNCHANGED <<sensorData, appended>>
    /\ UNCHANGED <<rev, now, inflight>>

\* app.all('/weatherstation/updateweatherstation.php')
Wunderground ==
    \E method \in Methods : \E data \in RequestData(method) :
        /\ Route(rev, method, WU) = "wunderground"
        /\ CanIngest
        /\ Ingest(RawData(now, "", "", data), parseEcowittData(data, now),
                  "success")

\* app.post('/api/ecowitt'), the body being one of bodies
PostEcowittOf(bodies) ==
    \E data \in bodies :
        /\ Route(rev, "POST", "/api/ecowitt") = "postEcowitt"
        /\ CanIngest
        /\ Ingest(RawData(now, "", "", data), parseEcowittData(data, now),
                  "success")

PostEcowitt == PostEcowittOf(RequestData("POST"))

\* app.get('/api/ecowitt')
GetEcowitt ==
    \E data \in RequestData("GET") :
        /\ Route(rev, "GET", "/api/ecowitt") = "getEcowitt"
        /\ CanIngest
        /\ Ingest(RawData(now, "", "", data), parseEcowittData(data, now),
                  "success")

\* app.all('/data/report') of v11
Report ==
    \E method \in Methods : \E data \in RequestData(method) :
        /\ Route(rev, method, "/data/report") = "report"
        /\ CanIngest
        /\ Ingest(RawData(now, "", "", data), parseEcowittData(data, now),
                  "success\n")

\* app.all('/*') of v11
CatchAll ==
    \E method \in Methods : \E path \in Paths : \E data \in RequestData(method) :
        /\ Route(rev, method, path) = "catchAll"
        /\ CanIngest
        /\ IF HasKeys(data)
           THEN Ingest(RawData(now, "", path, data),
                       parseEcowittData(data, now), "success\n")
           ELSE /\ res' = Response("ingest", data, 200, "success\n")
                /\ UNCHANGED <<rev, sensorData, lastRawData, now,
                               inflight, appended>>

----------------------------------------------------------------------------
(* The cloud poller                                                        *)

\* the fetch attempts of one poll cycle: 1 in v11, up to 3 in cloud
Attempts(r) == IF r = "v11" THEN 1 ELSE 3
Stages == 1..3

InFlight == inflight[1] + inflight[2] + inflight[3]

\* setInterval(fetchEcowittData, 60000) / setTimeout(fetchEcowittData, 5000):
\* a timer starts a cycle, which runs up to its first await fetch(url)
PollStart ==
    /\ rev \in {"v11", "cloud"}
    /\ InFlight < MaxInFlight
    /\ inflight' = [inflight EXCEPT ![1] = @ + 1]
    /\ UNCHANGED <<rev, sensorData, lastRawData, now, res, appended>>

\* PollIngest observed between its push and its shift
PollIngest_pushOnly(out) ==
    IF out.code = 0 /\ out.hasData
    THEN LET parsed == parseEcowittCloudData(rev, out.data, now)
         IN  /\ lastRawData' = RawData(now, "ecowitt-cloud", "", out.data)
             /\ IF ~Threw(parsed) /\ HasSensorData(parsed)
                THEN /\ sensorData' = Append(sensorData, parsed)
                     /\ appended' = Append(appended, parsed)
                ELSE UNCHANGED <<sensorData, appended>>
    ELSE UNCHANGED <<sensorData, lastRawData, appended>>

\* PollIngest storing whenever the envelope carries data, whatever its code
PollIngest_anyCode(out) ==
    IF out.hasData
    THEN LET parsed == parseEcowittCloudData(rev, out.data, now)
         IN  /\ lastRawData' = RawData(now, "ecowitt-cloud", "", out.data)
             /\ IF ~Threw(parsed) /\ HasSensorData(parsed)
                THEN /\ sensorData' = StoreReading(sensorData, parsed)
                     /\ appended' = Append(appended, parsed)
                ELSE UNCHANGED <<sensorData, appended>>
    ELSE UNCHANGED <<sensorData, lastRawData, appended>>

\* PollIngest stamping its reading with the time at which the server started
PollIngest_startTime(out) ==
    IF out.code = 0 /\ out.hasData
    THEN LET parsed == parseEcowittCloudData(rev, out.data, 0)
         IN  /\ lastRawData' = RawData(now, "ecowitt-cloud", "", out.data)
             /\ IF ~Threw(parsed) /\ HasSensorData(parsed)
                THEN /\ sensorData' = StoreReading(sensorData, parsed)
                     /\ appended' = Append(appended, parsed)
                ELSE UNCHANGED <<sensorData, appended>>
    ELSE UNCHANGED <<sensorData, lastRawData, appended>>

\* the rest of fetchEcowittData once the envelope is final, up to its end
PollIngest(out) ==
    IF out.code = 0 /\ out.hasData
    THEN LET parsed == parseEcowittCloudData(rev, out.data, now)
         IN  /\ lastRawData' = RawData(now, "ecowitt-cloud", "", out.data)
             /\ IF ~Threw(parsed) /\ HasSensorData(parsed)
                THEN /\ sensorData' = StoreReading(sensorData, parsed)
                     /\ appended' = Append(appended, parsed)
                ELSE UNCHANGED <<sensorData, appended>>
    ELSE UNCHANGED <<sensorData, lastRawData, appended>>

\* a cycle suspended in attempt stage (at await fetch(url) or at
\* await response.json(), between which it touches no shared state) resumes
\* with the outcome out and runs to its next await or to its end: a
\* rejection goes to the catch, an envelope with code !== 0 to the next
\* fetch while an attempt is left, any other envelope to the final if
PollResume(stage, out) ==
    /\ inflight[stage] > 0
    /\ CanIngest
    /\ IF out.kind = "reject"
       THEN /\ inflight' = [inflight EXCEPT ![stage] = @ - 1]
            /\ UNCHANGED <<sensorData, lastRawData, appended>>
       ELSE IF out.code # 0 /\ stage < Attempts(rev)
       THEN /\ inflight' = [inflight EXCEPT ![stage] = @ - 1,
                                            ![stage + 1] = @ + 1]
            /\ UNCHANGED <<sensorData, lastRawData, appended>>
       ELSE /\ inflight' = [inflight EXCEPT ![stage] = @ - 1]
            /\ PollIngest(out)
    /\ UNCHANGED <<rev, now, res>>

PollRespondOf(outcomes) ==
    \E stage \in Stages : \E out \in outcomes : PollResume(stage, out)

PollRespond == PollRespondOf(FetchOutcomes)

----------------------------------------------------------------------------
(* The clock                                                               *)

Tick ==
    /\ now < MaxTime
    /\ now' = now + 1
    /\ UNCHANGED <<rev, sensorData, lastRawData, inflight, res,
                   appended>>

----------------------------------------------------------------------------
(* Specification                                                           *)

Init ==
    /\ rev \in Revisions
    /\ sensorData = <<>>
    /\ lastRawData = NullRawData
    /\ now = 0
    /\ inflight = [s \in Stages |-> 0]
    /\ res = NoResponse
    /\ appended = <<>>

Next ==
    \/ Wunderground
    \/ PostEcowitt
    \/ GetEcowitt
    \/ CatchAll
    \/ PollStart
    \/ PollRespond
    \/ Tick

Spec == Init /\ [][Next]_vars

----------------------------------------------------------------------------
(* Array.prototype.sort with a comparator                                  *)

\* The two comparators of the program, by name.  "numeric" is
\* (a, b) => a - b of calculateStats; "severity" is
\* (a, b) => a.severity === 'critical' ? -1 : b.severity === 'critical' ? 1 : 0
\* of the alerts route.  The result is the sign; a comparator result of NaN
\* counts as 0 in the runtime.
Compare(cmp, a, b) ==
    IF cmp = "numeric"
    THEN IF a.k = "number" /\ b.k = "number"
         THEN (IF a.v < b.v THEN 0 - 1 ELSE IF a.v > b.v THEN 1 ELSE 0)
         ELSE 0
    ELSE IF a.severity = "critical" THEN 0 - 1
         ELSE IF b.severity = "critical" THEN 1 ELSE 0

\* s with x put before position i (1-based), i in 1..Len(s)+1
InsertAt(s, i, x) == SubSeq(s, 1, i - 1) \o <<x>> \o SubSeq(s, i, Len(s))

Reverse(s) == [i \in 1..Len(s) |-> s[Len(s) + 1 - i]]

\* The insertion sort that V8 up to 6.x (Node.js up to 10) uses for arrays
\* of at most 10 elements: each element moves left past every element that
\* compares greater than it, and stops at the first that does not.
RECURSIVE LegacyStop(_, _, _, _)
LegacyStop(cmp, sorted, x, j) ==
    IF j = 0 \/ Compare(cmp, sorted[j], x) <= 0 THEN j
    ELSE LegacyStop(cmp, sorted, x, j - 1)

RECURSIVE InsertionSort(_, _, _)
InsertionSort(cmp, a, n) ==
    IF n <= 1 THEN SubSeq(a, 1, n)
    ELSE LET sorted == InsertionSort(cmp, a, n - 1)
             j == LegacyStop(cmp, sorted, a[n], n - 1)
         IN  InsertAt(sorted, j + 1, a[n])

\* The TimSort of V8 from 7.0 (Node.js from 11) on an array shorter than 64:
\* CountAndMakeRun finds the run at the start, reversing it when it is
\* strictly descending, and BinaryInsertionSort inserts each later element
\* at the place a binary search of the sorted part finds for it.
RECURSIVE RunEnd(_, _, _, _)
RunEnd(cmp, a, desc, idx) ==
    IF idx > Len(a) THEN Len(a)
    ELSE LET order == Compare(cmp, a[idx], a[idx - 1])
         IN  IF (desc /\ order >= 0) \/ (~desc /\ order < 0) THEN idx - 1
             ELSE RunEnd(cmp, a, desc, idx + 1)

\* left and right 0-based, as in the source of the runtime
RECURSIVE BinarySearch(_, _, _, _, _)
BinarySearch(cmp, sorted, pivot, left, right) ==
    IF left >= right THEN left
    ELSE LET mid == left + ((right - left) \div 2)
         IN  IF Compare(cmp, pivot, sorted[mid + 1]) < 0
             THEN BinarySearch(cmp, sorted, pivot, left, mid)
             ELSE BinarySearch(cmp, sorted, pivot, mid + 1, right)

RECURSIVE BinaryInsertionSort(_, _, _, _)
BinaryInsertionSort(cmp, a, sorted, start) ==
    IF start > Len(a) THEN sorted
    ELSE LET left == BinarySearch(cmp, sorted, a[start], 0, Len(sorted))
         IN  BinaryInsertionSort(cmp, a, InsertAt(sorted, left + 1, a[start]),
                                 start + 1)

TimSort(cmp, a) ==
    IF Len(a) < 2 THEN a
    ELSE LET desc == Compare(cmp, a[2], a[1]) < 0
             runEnd == RunEnd(cmp, a, desc, 3)
             run == IF desc THEN Reverse(SubSeq(a, 1, runEnd))
                    ELSE SubSeq(a, 1, runEnd)
         IN  BinaryInsertionSort(cmp, a, run, runEnd + 1)

\* the sort implementations a Node.js runtime can bring
Engines == {"timsort", "insertion"}

IsUndef(x) == x = Undef
IsDefined(x) == x # Undef

\* array.sort(cmp) under the given engine: the undefined elements go to the
\* end without being compared, the others are sorted by the engine
Sort(engine, cmp, a) ==
    LET defined == SelectSeq(a, IsDefined)
        undefs == SelectSeq(a, IsUndef)
    IN  (IF engine = "timsort" THEN TimSort(cmp, defined)
         ELSE InsertionSort(cmp, defined, Len(defined))) \o undefs

----------------------------------------------------------------------------
(* The read endpoints                                                      *)

\* a query parameter that is missing, and one that holds the text of n
NoArg == [given |-> FALSE, n |-> 0]
Arg(n) == [given |-> TRUE, n |-> n]

\* const { limit = 100, hours } = req.query;   const { hours = 24 }
DefaultLimit == 100
DefaultHours == 24

\* a + b of reduce((a, b) => a + b, 0) on numbers, NaN and undefined
Plus(a, b) ==
    IF a.k = "number" /\ b.k = "number" THEN Num(a.v + b.v)
    ELSE IF a.k = "number" /\ b.k = "null" THEN a
    ELSE NaN

RECURSIVE Sum(_, _)
Sum(values, n) ==
    IF n = 0 THEN Num(0) ELSE Plus(Sum(values, n - 1), values[n])

\* sum / values.length, kept as the fraction
Div(sum, n) == [num |-> sum, den |-> n]

NullStats == [null |-> TRUE]

\* calculateStats with the median at index floor((n - 1) / 2)
calculateStats_lowerMedian(engine, values) ==
    IF Len(values) = 0 THEN NullStats
    ELSE LET sorted == Sort(engine, "numeric", values)
             sum == Sum(sorted, Len(sorted))
         IN  [null |-> FALSE,
              min |-> sorted[1],
              max |-> sorted[Len(sorted)],
              avg |-> Div(sum, Len(sorted)),
              median |-> sorted[((Len(sorted) - 1) \div 2) + 1],
              count |-> Len(sorted)]

\* function calculateStats(values)
calculateStats(engine, values) ==
    IF Len(values) = 0 THEN NullStats
    ELSE LET sorted == Sort(engine, "numeric", values)
             sum == Sum(sorted, Len(sorted))
         IN  [null |-> FALSE,
              min |-> sorted[1],
              max |-> sorted[Len(sorted)],
              avg |-> Div(sum, Len(sorted)),
              median |-> sorted[(Len(sorted) \div 2) + 1],
              count |-> Len(sorted)]

Last(store) == store[Len(store)]

\* getLatest answering with the latest reading of the last hour only
getLatest_lastHour(r, store) ==
    LET recent(x) == x.timestamp >= now - 1
        kept == SelectSeq(store, recent)
    IN  IF Len(kept) = 0
        THEN Response("latest", <<>>, IF r = "cloud" THEN 200 ELSE 404,
                      [success |-> FALSE, message |-> "No data available yet"])
        ELSE Response("latest", <<>>, 200,
                      [success |-> TRUE, reading |-> kept[Len(kept)]])

\* getLatest answering with the oldest reading of the store
getLatest_oldest(r, store) ==
    IF Len(store) = 0
    THEN Response("latest", <<>>, IF r = "cloud" THEN 200 ELSE 404,
                  [success |-> FALSE, message |-> "No data available yet"])
    ELSE Response("latest", <<>>, 200,
                  [success |-> TRUE, reading |-> store[1]])

\* app.get('/api/data/latest'): v7 answers an empty store with status 404,
\* cloud with status 200
getLatest(r, store) ==
    IF Len(store) = 0
    THEN Response("latest", <<>>, IF r = "cloud" THEN 200 ELSE 404,
                  [success |-> FALSE, message |-> "No data available yet"])
    ELSE Response("latest", <<>>, 200,
                  [success |-> TRUE, reading |-> Last(store)])

\* array.slice(start)
Slice(a, start) ==
    LET from == IF start < 0
                THEN (IF Len(a) + start < 0 THEN 0 ELSE Len(a) + start)
                ELSE (IF start > Len(a) THEN Len(a) ELSE start)
    IN  SubSeq(a, from + 1, Len(a))

\* filter(r => new Date(r.timestamp) >= cutoffTime), the cutoff being
\* Date.now() - hours * 60 * 60 * 1000
Since(store, t, hours) ==
    LET inWindow(r) == r.timestamp >= t - hours
    IN  SelectSeq(store, inWindow)

\* app.get('/api/data/history'): a query parameter is a string, and a
\* string that is not empty is truthy, "0" too
getHistory(store, t, hours, limit) ==
    LET filtered == IF hours.given THEN Since(store, t, hours.n) ELSE store
        limitNum == IF limit.given THEN limit.n ELSE DefaultLimit
        readings == Slice(filtered, 0 - limitNum)
    IN  Response("history", <<hours, limit>>, 200,
                 [success |-> TRUE, count |-> Len(readings),
                  readings |-> readings])

\* filtered.map(r => r[metric]).filter(v => v !== absent)
Values(filtered, metric, absent) ==
    LET all == [i \in 1..Len(filtered) |-> filtered[i][metric]]
        keep(v) == v # absent
    IN  SelectSeq(all, keep)

\* app.get('/api/data/stats')
getStats(engine, store, t, hours) ==
    LET h == IF hours.given THEN hours.n ELSE DefaultHours
        filtered == Since(store, t, h)
    IN  IF Len(filtered) = 0
        THEN Response("stats", <<engine, hours>>, 200,
                      [success |-> TRUE,
                       message |-> "No data available for this period",
                       stats |-> NullStats])
        ELSE Response("stats", <<engine, hours>>, 200,
               [success |-> TRUE,
                stats |->
                  [null |-> FALSE,
                   temperature |->
                     calculateStats(engine,
                                    Values(filtered, "temperature", Undef)),
                   soilMoisture1 |->
                     calculateStats(engine,
                                    Values(filtered, "soilMoisture1", Null)),
                   soilMoisture2 |->
                     calculateStats(engine,
                                    Values(filtered, "soilMoisture2", Null)),
                   leafWetness |->
                     calculateStats(engine,
                                    Values(filtered, "leafWetness", Null)),
                   count |-> Len(filtered),
                   timeRange |-> [start |-> filtered[1].timestamp,
                                  end |-> Last(filtered).timestamp]]])

\* const ranges = { ... } of the alerts route
ranges ==
    [temperature |-> [min |-> Unit(18), max |-> Unit(25),
                      critical |-> [min |-> Unit(10), max |-> Unit(35)]],
     soilMoisture |-> [min |-> Unit(30), max |-> Unit(60),
                       critical |-> [min |-> Unit(20), max |-> Unit(80)]],
     leafWetness |-> [max |-> Unit(70), critical |-> [max |-> Unit(85)]]]

\* x < n and x > n on a number or NaN
Lt(x, n) == x.k = "number" /\ x.v < n
Gt(x, n) == x.k = "number" /\ x.v > n

Alert(metric, value, severity, message) ==
    [metric |-> metric, value |-> value, severity |-> severity,
     message |-> message]

\* TemperatureAlerts with <= and >= in place of < and >
TemperatureAlerts_inclusive(latest) ==
    LET temp == latest.temperature
        r == ranges.temperature
    IN  IF temp = Undef THEN <<>>
        ELSE IF ~Gt(temp, r.critical.min) \/ ~Lt(temp, r.critical.max)
        THEN <<Alert("temperature", temp, "critical",
                     IF ~Gt(temp, r.critical.min)
                     THEN "Temperature critically low"
                     ELSE "Temperature critically high")>>
        ELSE IF ~Gt(temp, r.min) \/ ~Lt(temp, r.max)
        THEN <<Alert("temperature", temp, "warning",
                     "Temperature outside ideal range")>>
        ELSE <<>>

\* if (latest.temperature !== undefined) { ... }
TemperatureAlerts(latest) ==
    LET temp == latest.temperature
        r == ranges.temperature
    IN  IF temp = Undef THEN <<>>
        ELSE IF Lt(temp, r.critical.min) \/ Gt(temp, r.critical.max)
        THEN <<Alert("temperature", temp, "critical",
                     IF Lt(temp, r.critical.min)
                     THEN "Temperature critically low"
                     ELSE "Temperature critically high")>>
        ELSE IF Lt(temp, r.min) \/ Gt(temp, r.max)
        THEN <<Alert("temperature", temp, "warning",
                     "Temperature outside ideal range")>>
        ELSE <<>>

\* the body of [1, 2].forEach(num => { ... })
SoilAlerts(latest, metric) ==
    LET moisture == latest[metric]
        r == ranges.soilMoisture
    IN  IF moisture = Null \/ moisture = Undef THEN <<>>
        ELSE IF Lt(moisture, r.critical.min) \/ Gt(moisture, r.critical.max)
        THEN <<Alert(metric, moisture, "critical",
                     IF Lt(moisture, r.critical.min)
                     THEN "Soil sensor critically dry"
                     ELSE "Soil sensor critically wet")>>
        ELSE IF Lt(moisture, r.min) \/ Gt(moisture, r.max)
        THEN <<Alert(metric, moisture, "warning",
                     "Soil sensor outside ideal range")>>
        ELSE <<>>

\* if (latest.leafWetness !== null && latest.leafWetness !== undefined)
LeafAlerts(latest) ==
    LET leaf == latest.leafWetness
        r == ranges.leafWetness
    IN  IF leaf = Null \/ leaf = Undef THEN <<>>
        ELSE IF Gt(leaf, r.critical.max)
        THEN <<Alert("leafWetness", leaf, "critical",
                     "High leaf wetness - disease risk!")>>
        ELSE IF Gt(leaf, r.max)
        THEN <<Alert("leafWetness", leaf, "warning",
                     "Elevated leaf wetness")>>
        ELSE <<>>

\* the alerts in the order in which the route pushes them
PushedAlerts(latest) ==
    TemperatureAlerts(latest) \o SoilAlerts(latest, "soilMoisture1")
        \o SoilAlerts(latest, "soilMoisture2") \o LeafAlerts(latest)

\* the alerts left in the order in which they were pushed
SortAlerts_unsorted(engine, alerts) == alerts

\* alerts.sort((a, b) => ...)
SortAlerts(engine, alerts) == Sort(engine, "severity", alerts)

\* app.get('/api/alerts')
getAlerts(engine, store) ==
    IF Len(store) = 0
    THEN Response("alerts", <<engine>>, 200,
                  [success |-> TRUE, alertCount |-> 0, alerts |-> <<>>,
                   message |-> "No data available yet"])
    ELSE LET alerts == PushedAlerts(Last(store))
         IN  Response("alerts", <<engine>>, 200,
                      [success |-> TRUE, alertCount |-> Len(alerts),
                       alerts |-> SortAlerts(engine, alerts),
                       timestamp |-> Last(store).timestamp])

\* app.get('/api/debug')
getDebug(store, raw) ==
    Response("debug", <<>>, 200,
             [success |-> TRUE, lastRawData |-> raw,
              totalReadings |-> Len(store),
              latestParsed |-> IF Len(store) > 0 THEN <<Last(store)>>
                               ELSE <<>>])

----------------------------------------------------------------------------
(* The read endpoints as actions                                           *)

\* the largest limit a request of the model asks for
MaxLimit == 2

HoursArgs == {NoArg} \cup {Arg(n) : n \in 0..MaxTime}
LimitArgs == {NoArg} \cup {Arg(n) : n \in 0..MaxLimit}

Answer(response) ==
    /\ res' = response
    /\ UNCHANGED <<rev, sensorData, lastRawData, now, inflight, appended>>

GetLatest ==
    /\ Route(rev, "GET", "/api/data/latest") = "latest"
    /\ Answer(getLatest(rev, sensorData))

GetHistory ==
    \E hours \in HoursArgs : \E limit \in LimitArgs :
        /\ Route(rev, "GET", "/api/data/history") = "history"
        /\ Answer(getHistory(sensorData, now, hours, limit))

GetStats ==
    \E engine \in Engines : \E hours \in HoursArgs :
        /\ Route(rev, "GET", "/api/data/stats") = "stats"
        /\ Answer(getStats(engine, sensorData, now, hours))

GetAlerts ==
    \E engine \in Engines :
        /\ Route(rev, "GET", "/api/alerts") = "alerts"
        /\ Answer(getAlerts(engine, sensorData))

GetDebug ==
    /\ Route(rev, "GET", "/api/debug") = "debug"
    /\ Answer(getDebug(sensorData, lastRawData))

----------------------------------------------------------------------------
(* Specifications of the read endpoints: the store is drawn from the       *)
(* stores that ingestion can build, up to a length that is below the       *)
(* capacity of the program                                                 *)

\* the parser of the revision: flat webhook payloads in v7, nested cloud
\* payloads in cloud
Parse(r, data, t) ==
    IF r = "cloud" THEN parseEcowittCloudData(r, data, t)
    ELSE parseEcowittData(data, t)

\* the sequences over S of length lo..hi
SeqsOf(S, lo, hi) == UNION {[1..k -> S] : k \in lo..hi}

\* the stores that ingesting payloads of P at times up to t builds
StoresOf(r, P, lo, hi, t) ==
    LET readings == {Parse(r, p, u) : p \in P, u \in 0..t}
        stored == {x \in readings : ~Threw(x) /\ HasSensorData(x)}
    IN  {st \in SeqsOf(stored, lo, hi) :
            \A i \in 1..Len(st) : \A j \in i..Len(st) :
                st[i].timestamp <= st[j].timestamp}

\* the state in which the store st was built, the clock being at t
StateWith(r, st, t) ==
    /\ rev = r
    /\ now = t
    /\ sensorData = st
    /\ appended = st
    /\ lastRawData = IF Len(st) = 0 THEN NullRawData
                     ELSE RawData(Last(st).timestamp,
                                  IF r = "cloud" THEN "ecowitt-cloud" ELSE "",
                                  "", Last(st).raw)
    /\ inflight = [s \in Stages |-> 0]
    /\ res = NoResponse

\* the revisions whose read endpoints can be reached
ReadRevisions == {"v7", "cloud"}

\* the payload with the given metric texts, in the layout of the revision;
\* a metric of Undef is left out
MetricPayload(r, temp, sm1, sm2, leaf) ==
    IF r = "cloud"
    THEN [shape |-> "nested",
          d |-> [x \in Channels |->
                   CASE x = "outdoor.temperature" /\ temp # Undef -> temp
                     [] x = "soil_ch1.soilmoisture" /\ sm1 # Undef -> sm1
                     [] x = "soil_ch2.soilmoisture" /\ sm2 # Undef -> sm2
                     [] x = "leaf_ch1.leaf_wetness" /\ leaf # Undef -> leaf
                     [] OTHER -> NoObj]]
    ELSE [shape |-> "flat",
          d |-> [x \in PayloadKeys |->
                   CASE x = "temp" -> temp
                     [] x = "soilmoisture1" -> sm1
                     [] x = "soilmoisture2" -> sm2
                     [] x = "leafwetness_ch1" -> leaf
                     [] OTHER -> Undef]]

\* the text of each whole number of S
Texts(S) == {NumStr(Unit(n)) : n \in S}

\* ReadSpec: stores of up to MaxStore readings spread over the clock range
MaxStore == 2

HistoryPayloads(r) ==
    {MetricPayload(r, NumStr(Unit(20)), NumStr(Unit(45)), Undef, Undef),
     MetricPayload(r, NumStr(Unit(5)), Undef, Undef, NumStr(Unit(90)))}

ReadInit ==
    \E r \in ReadRevisions : \E t \in 0..MaxTime :
        \E st \in StoresOf(r, HistoryPayloads(r), 0, MaxStore, t) :
            StateWith(r, st, t)

ReadNext ==
    \/ GetLatest
    \/ GetHistory
    \/ GetStats
    \/ GetAlerts
    \/ GetDebug
    \/ Tick

ReadSpec == ReadInit /\ [][ReadNext]_vars

\* StatsSpec: stores of up to MaxValues readings taken at the same time
MaxValues == 4

StatsPayloads(r) ==
    {MetricPayload(r, temp, Undef, Undef, Undef) :
        temp \in Texts({10, 20, 30, 40})}

StatsInit ==
    \E r \in ReadRevisions :
        \E st \in StoresOf(r, StatsPayloads(r), 1, MaxValues, 0) :
            StateWith(r, st, 0)

StatsNext == GetStats

StatsSpec == StatsInit /\ [][StatsNext]_vars

\* AlertSpec: stores of one reading whose metrics lie below, on, between
\* and above the limits of the bands
AlertPayloads(r) ==
    {MetricPayload(r, temp, sm1, sm2, leaf) :
        temp \in {Undef, Text("abc")}
                    \cup Texts({5, 10, 14, 18, 25, 27, 35, 36}),
        sm1 \in {Undef} \cup Texts({10, 20, 25, 30, 60, 70, 80, 90}),
        sm2 \in {Undef} \cup Texts({10, 25}),
        leaf \in {Undef} \cup Texts({70, 71, 85, 86})}

AlertInit ==
    \E r \in ReadRevisions :
        \E st \in StoresOf(r, AlertPayloads(r), 1, 1, 0) :
            StateWith(r, st, 0)

AlertNext == GetAlerts

AlertSpec == AlertInit /\ [][AlertNext]_vars

----------------------------------------------------------------------------
(* NormalizeSpec: the first ingest after the start of the server, its      *)
(* payload drawn from the contents a metric field can have                 *)

\* what a field of a flat payload can hold: nothing, a decimal text, the
\* text "0", the number 0 of a JSON body, a text that is no number
FlatTemps ==
    {Undef, NumStr(Unit(68)), NumStr(Unit(20)), NumStr(0), Num(0),
     Text("abc")}
FlatSoils == {Undef, NumStr(Unit(45)), NumStr(0), Num(0), Text("abc")}

FlatInputs ==
    {Flat(("tempf" :> a) @@ ("temp1f" :> b) @@ ("tempinf" :> c)
          @@ ("temp" :> d) @@ ("soilmoisture1" :> e)) :
        a \in FlatTemps, b \in FlatTemps, c \in FlatTemps, d \in FlatTemps,
        e \in FlatSoils}

\* what the .value of a channel of a nested payload can hold, NoObj being
\* a channel that is missing
NestedValues ==
    {NoObj, NumStr(Hundredths(7234)), NumStr(Unit(65)), NumStr(0), Num(0),
     Text("abc")}
NestedSoils == {NoObj, NumStr(Unit(45)), NumStr(0)}

\* soil channel 1 is given in the layout of both cloud parsers
NestedInputs ==
    {Nested(("outdoor.temperature" :> a) @@ ("indoor.temperature" :> b)
            @@ ("outdoor.humidity" :> c) @@ ("indoor.humidity" :> d)
            @@ ("soil_ch1.soilmoisture" :> e)
            @@ ("soil_ch[0].humidity" :> e)) :
        a \in NestedValues, b \in NestedValues,
        c \in {NoObj, NumStr(Unit(65)), NumStr(0)},
        d \in {NoObj, NumStr(Unit(40))},
        e \in NestedSoils}

\* the cloud responses {code: 0, data: p}
NestedOutcomes ==
    {[kind |-> "envelope", code |-> 0, hasData |-> TRUE, data |-> p] :
        p \in NestedInputs}

\* no request and no cloud response has been taken yet
NothingReceived == lastRawData.null /\ res = NoResponse

FirstPost == NothingReceived /\ PostEcowittOf(FlatInputs)

FirstPoll == NothingReceived /\ PollRespondOf(NestedOutcomes)

NormalizeNext ==
    \/ FirstPost
    \/ PollStart
    \/ FirstPoll

NormalizeSpec == Init /\ [][NormalizeNext]_vars

----------------------------------------------------------------------------
(* ServeSpec: ingestion together with the read endpoints that answer from  *)
(* the latest reading or tell an empty store, within one hour of the clock *)

ServeNext ==
    \/ PostEcowitt
    \/ PollStart
    \/ PollRespond
    \/ GetLatest
    \/ GetStats
    \/ GetAlerts

ServeSpec == Init /\ [][ServeNext]_vars

----------------------------------------------------------------------------
(* The read endpoints over the arrays they work on.  A JavaScript array is *)
(* an object: sort() reorders the array it is called on, while filter(),   *)
(* map(), slice() and [...a] build a new array.  Each operator below gives *)
(* the arrays of one handler when it has answered, by the variable that    *)
(* holds them; sensorData is the store itself.                             *)

\* the arrays before the handler has created one of its own
Arrays(store) ==
    [sensorData |-> store, filtered |-> <<>>, values |-> <<>>,
     alerts |-> <<>>]

\* app.get('/api/data/latest'): reads sensorData[sensorData.length - 1]
getLatestArrays(store) == Arrays(store)

\* getHistoryArrays with sensorData.splice(-limitNum) in place of
\* filtered.slice(-limitNum): the readings answered are cut out of the store
getHistoryArrays_splice(store, t, hours, limit) ==
    LET limitNum == IF limit.given THEN limit.n ELSE DefaultLimit
        removed == Slice(store, 0 - limitNum)
    IN  [Arrays(store) EXCEPT
            !.filtered = removed,
            !.sensorData = SubSeq(store, 1, Len(store) - Len(removed))]

\* app.get('/api/data/history'): filtered = [...sensorData], then
\* filtered = filtered.filter(...) and filtered = filtered.slice(-limitNum)
getHistoryArrays(store, t, hours, limit) ==
    LET limitNum == IF limit.given THEN limit.n ELSE DefaultLimit
        spread == [Arrays(store) EXCEPT !.filtered = store]
        inWindow == IF hours.given
                    THEN [spread EXCEPT !.filtered = Since(@, t, hours.n)]
                    ELSE spread
    IN  [inWindow EXCEPT !.filtered = Slice(@, 0 - limitNum)]

\* calculateStats(values): values.sort((a, b) => a - b) sorts the array
\* that the caller passed
calculateStatsArrays(engine, arrays) ==
    IF Len(arrays.values) = 0 THEN arrays
    ELSE [arrays EXCEPT !.values = Sort(engine, "numeric", @)]

\* app.get('/api/data/stats'): filtered = sensorData.filter(...), and for
\* each metric calculateStats(filtered.map(r => r[metric]).filter(...))
getStatsArrays(engine, store, t, hours) ==
    LET h == IF hours.given THEN hours.n ELSE DefaultHours
        inWindow == [Arrays(store) EXCEPT !.filtered = Since(store, t, h)]
        stat(arrays, metric, absent) ==
            calculateStatsArrays(engine,
                [arrays EXCEPT
                    !.values = Values(arrays.filtered, metric, absent)])
    IN  IF Len(inWindow.filtered) = 0 THEN inWindow
        ELSE stat(stat(stat(stat(inWindow, "temperature", Undef),
                            "soilMoisture1", Null),
                       "soilMoisture2", Null),
                  "leafWetness", Null)

\* app.get('/api/alerts'): alerts = [], alerts.push(...), alerts.sort(...)
getAlertsArrays(engine, store) ==
    IF Len(store) = 0 THEN Arrays(store)
    ELSE LET pushed == [Arrays(store) EXCEPT
                           !.alerts = PushedAlerts(Last(store))]
         IN  [pushed EXCEPT !.alerts = SortAlerts(engine, @)]

\* app.get('/api/debug'): reads sensorData.length and the last reading
getDebugArrays(store) == Arrays(store)

\* the handler answers, the store being what its arrays hold of it
Serve(response, arrays) ==
    /\ res' = response
    /\ sensorData' = arrays.sensorData
    /\ UNCHANGED <<rev, lastRawData, now, inflight, appended>>

LatestRequest ==
    /\ Route(rev, "GET", "/api/data/latest") = "latest"
    /\ Serve(getLatest(rev, sensorData), getLatestArrays(sensorData))

HistoryRequest ==
    \E hours \in HoursArgs : \E limit \in LimitArgs :
        /\ Route(rev, "GET", "/api/data/history") = "history"
        /\ Serve(getHistory(sensorData, now, hours, limit),
                 getHistoryArrays(sensorData, now, hours, limit))

StatsRequest ==
    \E engine \in Engines : \E hours \in HoursArgs :
        /\ Route(rev, "GET", "/api/data/stats") = "stats"
        /\ Serve(getStats(engine, sensorData, now, hours),
                 getStatsArrays(engine, sensorData, now, hours))

AlertsRequest ==
    \E engine \in Engines :
        /\ Route(rev, "GET", "/api/alerts") = "alerts"
        /\ Serve(getAlerts(engine, sensorData),
                 getAlertsArrays(engine, sensorData))

DebugRequest ==
    /\ Route(rev, "GET", "/api/debug") = "debug"
    /\ Serve(getDebug(sensorData, lastRawData), getDebugArrays(sensorData))

\* FrameSpec: ingestion by POST /api/ecowitt and by the poller with the five
\* read endpoints, within one hour of the clock; every fetch succeeds, and
\* the payloads carry two temperatures, so that a store holds them in
\* either order
FrameOutcomes ==
    {[kind |-> "envelope", code |-> 0, hasData |-> TRUE, data |-> p] :
        p \in HistoryPayloads("cloud")}

FramePost == PostEcowittOf(HistoryPayloads("v7"))

FramePoll == PollRespondOf(FrameOutcomes)

FrameNext ==
    \/ FramePost
    \/ PollStart
    \/ FramePoll
    \/ LatestRequest
    \/ HistoryRequest
    \/ StatsRequest
    \/ AlertsRequest
    \/ DebugRequest

FrameSpec == Init /\ [][FrameNext]_vars

----------------------------------------------------------------------------
(* Dispatch: a request runs through the routes in the order of their       *)
(* registration.  A route that matches runs its handler; the request goes  *)
(* on to the later routes only when the handler calls next().              *)

\* the routes of each revision in the order of their registration, the
\* last being the 404 of Express for a request that no route has answered
Chain(r) ==
    CASE r = "v7" ->
            <<"health", "logAll", "wunderground", "postEcowitt",
              "getEcowitt", "latest", "history", "stats", "alerts", "debug",
              "notFound">>
      [] r = "v11" ->
            <<"health", "catchAll", "report", "wunderground", "postEcowitt",
              "getEcowitt", "latest", "history", "stats", "alerts", "debug",
              "notFound">>
      [] OTHER ->
            <<"health", "latest", "history", "stats", "alerts", "debug",
              "notFound">>

\* the method and the path that the route is registered for
Matches(h, method, path) ==
    CASE h = "health" -> method = "GET" /\ path = "/"
      [] h \in {"logAll", "catchAll", "notFound"} -> TRUE
      [] h = "report" -> path = "/data/report"
      [] h = "wunderground" -> path = WU
      [] h = "postEcowitt" -> method = "POST" /\ path = "/api/ecowitt"
      [] h = "getEcowitt" -> method = "GET" /\ path = "/api/ecowitt"
      [] h = "latest" -> method = "GET" /\ path = "/api/data/latest"
      [] h = "history" -> method = "GET" /\ path = "/api/data/history"
      [] h = "stats" -> method = "GET" /\ path = "/api/data/stats"
      [] h = "alerts" -> method = "GET" /\ path = "/api/alerts"
      [] h = "debug" -> method = "GET" /\ path = "/api/debug"
      [] OTHER -> FALSE

\* PassesOn with a catch-all of v11 that calls next() for every path
PassesOn_catchAll(h, path) == h \in {"logAll", "catchAll"}

\* the handler calls next(): app.all('*') of v7 always, app.all('/*') of
\* v11 for the static paths, which it leaves without doing anything else
PassesOn(h, path) ==
    \/ h = "logAll"
    \/ h = "catchAll" /\ IsStatic(path)

\* the handlers that run for a request, from route i of the chain on
RECURSIVE RanFrom(_, _, _, _)
RanFrom(chain, i, method, path) ==
    IF i > Len(chain) THEN <<>>
    ELSE IF ~Matches(chain[i], method, path)
    THEN RanFrom(chain, i + 1, method, path)
    ELSE IF PassesOn(chain[i], path)
    THEN <<chain[i]>> \o RanFrom(chain, i + 1, method, path)
    ELSE <<chain[i]>>

Ran(r, method, path) == RanFrom(Chain(r), 1, method, path)

\* the state that the handlers of a request work on
Shared == [sensorData |-> sensorData, lastRawData |-> lastRawData,
           appended |-> appended, res |-> res]

\* the body shared by the webhook handlers, on the state s: set
\* lastRawData, parse, store when a sensor value was found, answer
Ingested(s, raw, parsed, ok) ==
    IF Threw(parsed)
    THEN [s EXCEPT !.lastRawData = raw,
                   !.res = Response("ingest", raw.data, 500, "error")]
    ELSE IF HasSensorData(parsed)
    THEN [s EXCEPT !.lastRawData = raw,
                   !.res = Response("ingest", raw.data, 200, ok),
                   !.sensorData = StoreReading(@, parsed),
                   !.appended = Append(@, parsed)]
    ELSE [s EXCEPT !.lastRawData = raw,
                   !.res = Response("ingest", raw.data, 200, ok)]

\* what the handler h does to the state s for the request
Handle(h, s, path, data, t) ==
    CASE h = "logAll" -> s
      [] h = "catchAll" ->
            IF IsStatic(path) THEN s
            ELSE IF HasKeys(data)
            THEN Ingested(s, RawData(t, "", path, data),
                          parseEcowittData(data, t), "success\n")
            ELSE [s EXCEPT !.res = Response("ingest", data, 200, "success\n")]
      [] h = "report" ->
            Ingested(s, RawData(t, "", "", data), parseEcowittData(data, t),
                     "success\n")
      [] h \in {"wunderground", "postEcowitt", "getEcowitt"} ->
            Ingested(s, RawData(t, "", "", data), parseEcowittData(data, t),
                     "success")
      [] h = "notFound" -> [s EXCEPT !.res = Response("notFound", data, 404, "")]
      [] OTHER -> [s EXCEPT !.res = Response(h, data, 200, "")]

\* the handlers hs run one after the other
RECURSIVE RunAll(_, _, _, _, _)
RunAll(hs, s, path, data, t) ==
    IF hs = <<>> THEN s
    ELSE RunAll(Tail(hs), Handle(Head(hs), s, path, data, t), path, data, t)

\* one request to a webhook path or to /
Dispatch ==
    \E method \in Methods : \E path \in Paths \cup {WU} :
        \E data \in RequestData(method) :
            /\ CanIngest
            /\ LET after == RunAll(Ran(rev, method, path), Shared, path,
                                   data, now)
               IN  /\ sensorData' = after.sensorData
                   /\ lastRawData' = after.lastRawData
                   /\ appended' = after.appended
                   /\ res' = after.res
            /\ UNCHANGED <<rev, now, inflight>>

\* DispatchSpec: the requests through the chain of routes, and the poller
DispatchNext ==
    \/ Dispatch
    \/ PollStart
    \/ PollRespond

DispatchSpec == Init /\ [][DispatchNext]_vars

----------------------------------------------------------------------------
(* PollSpec: the server under the scheduling its runtime guarantees.  The  *)
(* timers fire and the clock advances; a cycle suspended at                *)
(* await fetch(url) resumes when the fetch settles, and fetch(url) is      *)
(* called without a timeout or an abort signal, so nothing in the program  *)
(* makes it settle: no fairness is stated for PollRespond.                 *)

PollSpec == Init /\ [][Next]_vars /\ WF_vars(PollStart) /\ WF_vars(Tick)

----------------------------------------------------------------------------
(* Claims about ingestion and the store, checked under Spec                *)

\* C1: in every reachable state the store holds at most MAX_READINGS
\* readings.
C1_StoreWithinCapacity == Len(sensorData) <= MAX_READINGS

\* an append has happened on a full store, which is still full
C1_Witness == Len(appended) > MAX_READINGS /\ Len(sensorData) = MAX_READINGS

\* the last n elements of the sequence s
LastN(s, n) == SubSeq(s, Len(s) - n + 1, Len(s))

\* C2: once more than MAX_READINGS readings have been appended, the store
\* holds exactly the last MAX_READINGS of them in the order of their append.
C2_KeepsMostRecentInOrder ==
    Len(appended) > MAX_READINGS =>
        sensorData = LastN(appended, MAX_READINGS)

\* an eviction has happened and the readings kept differ from each other
\* and from the one evicted
C2_Witness ==
    /\ Len(appended) > MAX_READINGS
    /\ Len(sensorData) = MAX_READINGS
    /\ sensorData[1] # sensorData[Len(sensorData)]
    /\ appended[Len(appended) - MAX_READINGS] # sensorData[1]

\* x is neither null nor undefined
Present(x) == x.k \notin {"null", "undefined"}

\* C3: every reading in the store has at least one of temperature,
\* soilMoisture1, soilMoisture2, leafWetness present (a payload without any
\* of them is not stored), whichever parser produced it.
C3_StoredReadingHasMetric ==
    \A i \in 1..Len(sensorData) :
        \/ Present(sensorData[i].temperature)
        \/ Present(sensorData[i].soilMoisture1)
        \/ Present(sensorData[i].soilMoisture2)
        \/ Present(sensorData[i].leafWetness)

\* C10: every ingestion request is answered with the success
\* acknowledgment, whether or not a reading was stored; no payload makes an
\* ingestion endpoint answer with an error.
C10_AlwaysSuccess ==
    res.op = "ingest" =>
        res.status = 200 /\ res.body \in {"success", "success\n"}

\* the answers the handlers give: the error answer exactly when parsing the
\* payload throws, the success acknowledgment otherwise
IngestAnswers ==
    res.op = "ingest" =>
        IF Threw(parseEcowittData(res.arg, now))
        THEN res.status = 500
        ELSE res.status = 200 /\ res.body \in {"success", "success\n"}

----------------------------------------------------------------------------
(* Claims about calculateStats, checked under StatsSpec                    *)

\* the temperatures of the stored readings, as numbers
Temps == [i \in 1..Len(sensorData) |-> sensorData[i].temperature.v]

\* the k-th smallest (k = 1 for the smallest) of the numbers of vals
KthSmallest(vals, k) ==
    CHOOSE x \in {vals[i] : i \in 1..Len(vals)} :
        /\ Cardinality({i \in 1..Len(vals) : vals[i] < x}) < k
        /\ k <= Cardinality({i \in 1..Len(vals) : vals[i] <= x})

\* the temperature aggregate of a statistics response
TempStats == res.body.stats.temperature

\* C4 as claimed: on an even number of values the median is the lower of
\* the two middle elements of the ascending sort ([10,20,30,40] gives 20).
C4_LowerMedian ==
    (res.op = "stats" /\ Len(sensorData) % 2 = 0) =>
        TempStats.median = Num(KthSmallest(Temps, Len(sensorData) \div 2))

\* C4 as amended: the median is the element at index floor(n/2), counted
\* from 0, of the ascending sort, which on an even number of values is the
\* upper of the two middle elements ([10,20,30,40] gives 30).
C4_UpperMedian ==
    res.op = "stats" =>
        TempStats.median =
            Num(KthSmallest(Temps, (Len(sensorData) \div 2) + 1))

\* the statistics of 40, 10, 30, 20 were computed, with median 30
C4_Witness ==
    /\ res.op = "stats"
    /\ Temps = <<Unit(40), Unit(10), Unit(30), Unit(20)>>
    /\ TempStats.median = Num(Unit(30))
    /\ TempStats.count = 4

----------------------------------------------------------------------------
(* Claims about the alerts, checked under AlertSpec                        *)

\* the alerts of an alerts response
Alerts == res.body.alerts

\* C5: in the alert list every critical alert comes before every warning.
C5_CriticalFirst ==
    res.op = "alerts" =>
        \A i \in 1..Len(Alerts) : \A j \in i..Len(Alerts) :
            ~(Alerts[i].severity = "warning" /\ Alerts[j].severity = "critical")

\* a temperature warning and a leaf wetness critical, the critical first
C5_Witness ==
    /\ res.op = "alerts"
    /\ Len(Alerts) = 2
    /\ Alerts[1].metric = "leafWetness" /\ Alerts[1].severity = "critical"
    /\ Alerts[2].metric = "temperature" /\ Alerts[2].severity = "warning"

\* the place of a metric in the order of generation
Rank(metric) ==
    CASE metric = "temperature" -> 1
      [] metric = "soilMoisture1" -> 2
      [] metric = "soilMoisture2" -> 3
      [] metric = "leafWetness" -> 4

\* C6: alerts of the same severity keep their order of generation:
\* temperature, soilMoisture1, soilMoisture2, leafWetness.
C6_StableWithinSeverity ==
    res.op = "alerts" =>
        \A i \in 1..Len(Alerts) : \A j \in (i + 1)..Len(Alerts) :
            Alerts[i].severity = Alerts[j].severity =>
                Rank(Alerts[i].metric) < Rank(Alerts[j].metric)

\* the severity the bands of the claim give the value v of a metric
Expected(metric, v) ==
    CASE metric = "temperature" ->
            IF v < Unit(10) \/ v > Unit(35) THEN "critical"
            ELSE IF v < Unit(18) \/ v > Unit(25) THEN "warning" ELSE "none"
      [] metric \in {"soilMoisture1", "soilMoisture2"} ->
            IF v < Unit(20) \/ v > Unit(80) THEN "critical"
            ELSE IF v < Unit(30) \/ v > Unit(60) THEN "warning" ELSE "none"
      [] metric = "leafWetness" ->
            IF v > Unit(85) THEN "critical"
            ELSE IF v > Unit(70) THEN "warning" ELSE "none"

Metrics == {"temperature", "soilMoisture1", "soilMoisture2", "leafWetness"}

\* the alerts of the response that are about the metric
AlertsAbout(metric) ==
    LET about(a) == a.metric = metric
    IN  SelectSeq(Alerts, about)

\* C7: for each metric whose value in the latest reading is a number, the
\* response holds exactly one alert, critical when the value is outside the
\* critical band and warning when it is inside it and outside the ideal
\* band, and no alert when it is inside the ideal band (the limits of a
\* band are inside it); for a metric without a number it holds no alert.
C7_OneAlertPerBand ==
    res.op = "alerts" =>
        \A metric \in Metrics :
            LET x == Last(sensorData)[metric]
                about == AlertsAbout(metric)
            IN  IF x.k = "number" /\ Expected(metric, x.v) # "none"
                THEN /\ Len(about) = 1
                     /\ about[1].severity = Expected(metric, x.v)
                     /\ about[1].value = x
                ELSE Len(about) = 0

\* temperature 5 alone gave one critical temperature alert
C7_Witness ==
    /\ res.op = "alerts"
    /\ Last(sensorData).temperature = Num(Unit(5))
    /\ Len(Alerts) = 1
    /\ Alerts[1].metric = "temperature" /\ Alerts[1].severity = "critical"

----------------------------------------------------------------------------
(* Claims about the read endpoints, checked under ReadSpec                 *)

\* the readings of the store taken at now - h or later
Window(h) ==
    LET recent(r) == r.timestamp >= now - h
    IN  SelectSeq(sensorData, recent)

\* C8: getHistory(hours, limit) with a limit of n >= 0 returns at most n
\* readings, all taken at now - hours or later, and they are the most
\* recent such readings in the order of the store.
C8_HistoryWithinLimit ==
    (res.op = "history" /\ res.arg[2].given) =>
        LET hours == res.arg[1]
            n == res.arg[2].n
            window == IF hours.given THEN Window(hours.n) ELSE sensorData
            k == IF n < Len(window) THEN n ELSE Len(window)
        IN  /\ Len(res.body.readings) <= n
            /\ res.body.readings = LastN(window, k)

\* what the read operations return in the current state
LatestResult == getLatest(rev, sensorData)
AlertsResult(engine) == getAlerts(engine, sensorData)
StatsResult(engine, hours) == getStats(engine, sensorData, now, hours)

StatsHours(hours) == IF hours.given THEN hours.n ELSE DefaultHours

\* across a lapse of time during which the store is not appended to,
\* getLatest and getAlerts return the same result as before
LatestAndAlertsRepeat ==
    (now' # now /\ sensorData' = sensorData) =>
        /\ LatestResult' = LatestResult
        /\ \A engine \in Engines :
              AlertsResult(engine)' = AlertsResult(engine)

\* getStats(hours) called on the same store at a later time t returns the
\* same result as now, provided its window at t holds the same readings
StatsRepeatWithinWindow ==
    \A engine \in Engines : \A hours \in HoursArgs : \A t \in now..MaxTime :
        Since(sensorData, t, StatsHours(hours)) = Window(StatsHours(hours)) =>
            getStats(engine, sensorData, t, hours) = StatsResult(engine, hours)

----------------------------------------------------------------------------
(* Claims about normalization, checked under NormalizeSpec                 *)

\* the metrics of a reading
MetricFields == {"temperature", "soilMoisture1", "soilMoisture2",
                 "leafWetness"}

\* the payload of the most recent ingest
LastPayload == lastRawData.data

\* C11: a metric field holding a malformed (non-numeric) string counts as
\* an absent metric: no stored reading carries a not-a-number metric, and a
\* payload whose metric fields are all absent or malformed stores nothing.
C11_MalformedIsAbsent ==
    /\ \A i \in 1..Len(sensorData) : \A f \in MetricFields :
          sensorData[i][f] # NaN
    /\ (/\ ~lastRawData.null
        /\ LastPayload.shape = "flat"
        /\ \A x \in FlatFields : LastPayload.d[x] \in {Undef, Text("abc")})
           => sensorData = <<>>

\* the number 0 and the string '0'
Zeros == {Num(0), NumStr(0)}

\* the first ingest has been taken and a reading was stored from it
StoredOne == ~lastRawData.null /\ Len(sensorData) = 1

\* C12: a metric field whose value is zero is present, as the number 0 and
\* as the string '0', in the flat and in the nested shape: the reading is
\* stored with the metric equal to the parsed value, and a nested outdoor
\* temperature of 0 is not replaced by the indoor temperature.
C12_ZeroIsPresent ==
    ~lastRawData.null =>
        /\ (LastPayload.shape = "flat"
              /\ LastPayload.d["soilmoisture1"] \in Zeros)
            => StoredOne /\ sensorData[1].soilMoisture1 = Num(0)
        /\ (LastPayload.shape = "flat" /\ LastPayload.d["tempf"] \in Zeros)
            => StoredOne /\ sensorData[1].temperature = FtoC(Num(0))
        /\ (LastPayload.shape = "nested"
              /\ LastPayload.d["outdoor.temperature"] \in Zeros)
            => StoredOne /\ sensorData[1].temperature = Num(0)

\* the temperature fields of the flat shape, in their order of precedence
TempOrder == <<"tempf", "temp1f", "tempinf", "temp">>

\* a field that holds something: a non-empty string or a number other
\* than 0 (what becomes of a zero is the subject of C12)
HasContent(x) ==
    \/ x.k = "string" /\ x.s # ""
    \/ x.k = "number" /\ x.v # 0

\* the position in TempOrder of the first field of d that holds something,
\* 0 when there is none
FirstTemp(d) ==
    IF \E i \in 1..4 : HasContent(d[TempOrder[i]])
    THEN CHOOSE i \in 1..4 :
            /\ HasContent(d[TempOrder[i]])
            /\ \A j \in 1..(i - 1) : ~HasContent(d[TempOrder[j]])
    ELSE 0

\* temperature is what the field x alone gives: c = (x - 32) * 5 / 9 for a
\* Fahrenheit field, c = x for temp, not-a-number for a text without number
FromField(temperature, x, fahrenheit) ==
    IF x.k = "string" /\ x.s # "#" THEN temperature = NaN
    ELSE /\ temperature.k = "number"
         /\ IF fahrenheit THEN temperature.v * 9 = (x.v - Unit(32)) * 5
            ELSE temperature.v = x.v

IsValue(x) == x.k = "string" /\ x.s = "#" /\ x.v # 0

\* metric is the number of the channel x: as it stands, or, where the
\* parser rounds, to the nearest tenth
NumberOf(metric, x, rounded) ==
    /\ metric.k = "number"
    /\ IF rounded
       THEN /\ metric.v % 90 = 0
            /\ metric.v - x.v \in (0 - 45)..45
       ELSE metric.v = x.v

\* metric follows the precedence of outdoor over indoor
OutdoorFirst(metric, outdoor, indoor, rounded) ==
    /\ IsValue(outdoor) => NumberOf(metric, outdoor, rounded)
    /\ (outdoor = NoObj /\ IsValue(indoor)) =>
            NumberOf(metric, indoor, rounded)
    /\ (outdoor = NoObj /\ indoor = NoObj) => metric = Undef

----------------------------------------------------------------------------
(* Claims about the poller, checked under Spec                             *)

\* the fetches that fail: a rejected fetch or an unreadable body, an
\* envelope with code !== 0, an envelope without data
FailedFetches ==
    {out \in FetchOutcomes :
        out.kind = "reject" \/ out.code # 0 \/ ~out.hasData}

\* a timer can start a poll cycle (up to the bound on suspended cycles)
TimerRuns ==
    (rev \in {"v11", "cloud"} /\ InFlight < MaxInFlight) => ENABLED PollStart

Retries(stage, out) ==
    out.kind = "envelope" /\ out.code # 0 /\ stage < Attempts(rev)

----------------------------------------------------------------------------
(* Claims about getStats, checked under StatsSpec, where every reading     *)
(* of the store lies in every window                                       *)

\* the values of the metric f that are present in the store
PresentValues(f) ==
    LET all == [i \in 1..Len(sensorData) |-> sensorData[i][f]]
    IN  SelectSeq(all, Present)

\* C16: for each metric, getStats aggregates the present values only: null
\* and undefined values are filtered out, count is the number of present
\* values, min and max are among them, and the aggregate is null when no
\* value is present.
C16_StatsOverPresentValues ==
    (res.op = "stats" /\ ~res.body.stats.null) =>
        \A f \in MetricFields :
            LET present == PresentValues(f)
                aggregate == res.body.stats[f]
            IN  IF Len(present) = 0 THEN aggregate = NullStats
                ELSE /\ ~aggregate.null
                     /\ aggregate.count = Len(present)
                     /\ \E i \in 1..Len(present) : aggregate.min = present[i]
                     /\ \E i \in 1..Len(present) : aggregate.max = present[i]

----------------------------------------------------------------------------
(* Claims about reads after ingests, checked under ServeSpec               *)

\* C17: getLatest returns the reading of the most recent ingest that was
\* stored, whatever ingests that stored nothing came after it, and its
\* no-data result exactly when the store is empty; on an empty store
\* getStats returns stats null and getAlerts an empty list, each with a
\* message.
C17_LatestIsLastStored ==
    /\ ~LatestResult.body.success <=> sensorData = <<>>
    /\ appended = <<>> <=> sensorData = <<>>
    /\ appended # <<>> => LatestResult.body.reading = Last(appended)
    /\ res.op = "latest" =>
          IF res.body.success THEN res.body.reading \in
                                      {appended[i] : i \in 1..Len(appended)}
          ELSE res.body.message = "No data available yet"
    /\ sensorData = <<>> =>
          \A engine \in Engines :
              /\ AlertsResult(engine).body.alerts = <<>>
              /\ AlertsResult(engine).body.alertCount = 0
              /\ AlertsResult(engine).body.message = "No data available yet"
              /\ \A hours \in HoursArgs :
                    /\ StatsResult(engine, hours).body.stats = NullStats
                    /\ StatsResult(engine, hours).body.message =
                          "No data available for this period"

\* getLatest has answered with the stored reading after a later ingest
\* that stored nothing
C17_Witness ==
    /\ res.op = "latest"
    /\ res = LatestResult
    /\ res.body.success
    /\ res.body.reading = Last(appended)
    /\ lastRawData.data = NoMetricFlat
    /\ res.body.reading.raw = TempFlat

----------------------------------------------------------------------------
(* Claims about interleaved ingests, checked under Spec                    *)

\* a step that touches the store is one whole ingest: the raw payload is
\* recorded, its reading is pushed and, at capacity, the oldest reading is
\* evicted, the store never being seen above its capacity
WholeAppend ==
    (sensorData' # sensorData \/ appended' # appended) =>
        /\ Len(appended') = Len(appended) + 1
        /\ SubSeq(appended', 1, Len(appended)) = appended
        /\ sensorData' =
              (IF Len(sensorData) = MAX_READINGS THEN Tail(sensorData)
               ELSE sensorData) \o <<Last(appended')>>
        /\ Len(sensorData') <= MAX_READINGS
        /\ lastRawData'.data = Last(appended').raw

\* C18: parsing, the eligibility test, the push and the eviction of one
\* ingest run without a suspension point between them: in every
\* interleaving of webhook requests and poll cycles, overlapping ones
\* included, every step seen by another handler is a whole ingest, the
\* store is never above its capacity and no pushed reading is lost.
C18_IngestIsAtomic == [][WholeAppend]_vars

\* a webhook request has stored a reading and evicted the oldest while a
\* poll cycle was suspended at its fetch
C18_Witness ==
    /\ InFlight > 0
    /\ res.op = "ingest"
    /\ res.status = 200
    /\ Len(appended) > MAX_READINGS
    /\ Len(sensorData) = MAX_READINGS
    /\ Last(sensorData).raw = res.arg
    /\ \E i \in 1..Len(appended) : appended[i].raw.shape = "nested"

----------------------------------------------------------------------------
(* Claims about the progress of the poller, checked under PollSpec         *)

\* C19: every poll cycle eventually finishes, by storing or by logging and
\* skipping, even when the cloud endpoint never responds; no cycle stays in
\* flight forever.  When MaxInFlight cycles are in flight no further cycle
\* starts, so that one of these cycles finishes exactly when fewer are in
\* flight later.
C19_PollCycleFinishes == (InFlight = MaxInFlight) ~> (InFlight < MaxInFlight)

----------------------------------------------------------------------------
(* Claims about the debug snapshot, checked under Spec                     *)

\* the snapshot GET /api/debug is built from
DebugResult == getDebug(sensorData, lastRawData)

\* a step in which a webhook handler answers a request
WebhookStep ==
    /\ res'.op = "ingest"
    /\ inflight' = inflight
    /\ <<res, lastRawData, appended>>' # <<res, lastRawData, appended>>

\* after the step the snapshot shows the payload data as the last raw
\* payload and the size of the store; if nothing was stored, the count and
\* the latest reading are as before
ShowsIngest(data) ==
    /\ ~DebugResult'.body.lastRawData.null
    /\ DebugResult'.body.lastRawData.data = data
    /\ DebugResult'.body.totalReadings = Len(sensorData')
    /\ appended' = appended =>
          /\ DebugResult'.body.totalReadings = DebugResult.body.totalReadings
          /\ DebugResult'.body.latestParsed = DebugResult.body.latestParsed

\* the cloud responses that carry a payload
DataOutcomes ==
    {out \in FetchOutcomes :
        out.kind = "envelope" /\ out.code = 0 /\ out.hasData}

\* a poll cycle that received a payload shows it in the snapshot
PollShowsIngest ==
    \A stage \in Stages : \A out \in DataOutcomes :
        PollResume(stage, out) => ShowsIngest(out.data)

\* C20 as claimed: after every ingest, stored or not, the snapshot's
\* lastRawData holds the payload of that ingest and totalReadings is the
\* size of the store, on every ingestion path.
C20_DebugShowsLastIngest ==
    [][/\ WebhookStep => ShowsIngest(res'.arg)
       /\ PollShowsIngest]_vars

\* C20 as amended: the same, except that the catch-all of v11 records the
\* payload only when it has at least one key; a request without any key
\* leaves lastRawData and the store as they are.
C20_DebugShowsLastIngestWithKeys ==
    [][/\ WebhookStep =>
            IF rev = "v11" /\ ~HasKeys(res'.arg)
            THEN lastRawData' = lastRawData /\ sensorData' = sensorData
            ELSE ShowsIngest(res'.arg)
       /\ PollShowsIngest]_vars

\* the catch-all of v11 has taken a payload that stored nothing after one
\* that was stored: the snapshot shows the later payload and the earlier
\* reading
C20_Witness ==
    /\ rev = "v11"
    /\ res.op = "ingest"
    /\ res.arg = NoMetricFlat
    /\ DebugResult.body.lastRawData.data = NoMetricFlat
    /\ DebugResult.body.totalReadings = 1
    /\ DebugResult.body.latestParsed = <<Last(appended)>>
    /\ Last(appended).raw = TempFlat

----------------------------------------------------------------------------
(* Claims about the readings in the store, checked under FrameSpec         *)

\* the operations that read the store
ReadOps == {"latest", "history", "stats", "alerts", "debug"}

\* the readings of the store that a step keeps: all of them, or all but
\* the oldest when the step appends to a store that is at its capacity
Kept ==
    IF appended' # appended /\ Len(sensorData) + 1 > MAX_READINGS
    THEN Tail(sensorData) ELSE sensorData

\* a step keeps the readings of the store as they are and in their order:
\* a step that appends nothing (a read, an ingest that stores nothing, a
\* timer) leaves the store as it is, and a step that appends puts its
\* reading behind the readings kept
StoreFrame ==
    /\ (res' # res /\ res'.op \in ReadOps) => appended' = appended
    /\ appended' = appended => sensorData' = sensorData
    /\ appended' # appended =>
          /\ Len(sensorData') = Len(Kept) + 1
          /\ SubSeq(sensorData', 1, Len(Kept)) = Kept
    /\ \A i \in 1..Len(sensorData) :
          \/ i <= Len(sensorData') /\ sensorData'[i] = sensorData[i]
          \/ /\ i > 1 /\ sensorData'[i - 1] = sensorData[i]
             /\ Len(sensorData) = MAX_READINGS
          \/ /\ i = 1
             /\ appended' # appended
             /\ Len(sensorData) + 1 > MAX_READINGS

\* C21: a stored reading is never changed and leaves the store only by
\* FIFO eviction: getLatest, getHistory, getStats, getAlerts and debug
\* leave the length, the order and the fields of the stored readings as
\* they are, their sorts acting on arrays of their own, and a reading is
\* removed only when it is the oldest and an append takes the store above
\* its capacity.
C21_ReadingsOnlyEvicted == [][StoreFrame]_vars

\* getStats has answered on a store that has evicted a reading and holds
\* the higher temperature first, so that its sort had to reorder the
\* values, and the store is in the order of the appends
C21_Witness ==
    /\ res.op = "stats"
    /\ Len(appended) > MAX_READINGS
    /\ Len(sensorData) = MAX_READINGS
    /\ sensorData = LastN(appended, MAX_READINGS)
    /\ sensorData[1].temperature.k = "number"
    /\ sensorData[2].temperature.k = "number"
    /\ sensorData[1].temperature.v > sensorData[2].temperature.v
    /\ res.body.stats # NullStats
    /\ res.body.stats.temperature.count = 2
    /\ res.body.stats.temperature.min = sensorData[2].temperature

----------------------------------------------------------------------------
(* Claims about the order of the timestamps, checked under Spec            *)

\* s is the end of the store
IsSuffix(s, store) == Len(s) <= Len(store) /\ s = LastN(store, Len(s))

\* the timestamps of the store never decrease from a reading to the next
Chronological ==
    \A i \in 1..Len(sensorData) : \A j \in i..Len(sensorData) :
        sensorData[i].timestamp <= sensorData[j].timestamp

\* C22: in every reachable state the timestamps of the stored readings are
\* non-decreasing in the order of the store, the clock being
\* non-decreasing, also when poll cycles overlap each other or webhook
\* ingests; hence the window filter of getHistory and getStats selects an
\* end of the store, and stats.timeRange.start <= stats.timeRange.end.
C22_StoreIsChronological ==
    /\ Chronological
    /\ \A hours \in HoursArgs :
          /\ hours.given => IsSuffix(Since(sensorData, now, hours.n), sensorData)
          /\ \A limit \in LimitArgs :
                IsSuffix(getHistory(sensorData, now, hours, limit).body.readings,
                         sensorData)
          /\ \A engine \in Engines :
                LET stats == StatsResult(engine, hours).body.stats
                IN  stats # NullStats =>
                        stats.timeRange.start <= stats.timeRange.end

\* the store holds a reading of a webhook request and a later reading of a
\* poll cycle that was in flight together with another cycle, which still
\* is; the window of the last hour selects the later reading only, and the
\* default window of getStats both
C22_Witness ==
    /\ InFlight > 0
    /\ Len(sensorData) = 2
    /\ sensorData[1].raw.shape = "flat"
    /\ sensorData[2].raw.shape = "nested"
    /\ sensorData[1].timestamp < sensorData[2].timestamp
    /\ sensorData[2].timestamp < now
    /\ Since(sensorData, now, 1) = <<sensorData[2]>>
    /\ \E engine \in Engines :
          LET stats == StatsResult(engine, NoArg).body.stats
          IN  /\ stats # NullStats
              /\ stats.timeRange.start < stats.timeRange.end

----------------------------------------------------------------------------
(* Claims about the handlers of a request, checked under DispatchSpec      *)

\* the requests of the model
Requests == Methods \X (Paths \cup {WU})

\* the handlers among ran that ingest the request
Ingesting(ran, path) ==
    {i \in 1..Len(ran) :
        \/ ran[i] \in {"report", "wunderground", "postEcowitt", "getEcowitt"}
        \/ ran[i] = "catchAll" /\ ~IsStatic(path)}

\* of the handlers that run for a request at most one ingests it, and the
\* last of them is the one that answers
OneHandlerIngests ==
    \A req \in Requests :
        LET ran == Ran(rev, req[1], req[2])
        IN  /\ Cardinality(Ingesting(ran, req[2])) <= 1
            /\ ran # <<>>
            /\ Last(ran) = Route(rev, req[1], req[2])
            /\ rev = "v11" /\ ~IsStatic(req[2]) => ran = <<"catchAll">>
            /\ rev = "v7" =>
                  ran = <<"logAll", Dedicated(rev, req[1], req[2])>>
                  \/ ran = <<"health">>

\* a step appends at most one reading, and a step in which a poll cycle
\* appends is the last step of that cycle
AppendsOnce ==
    /\ Len(appended') <= Len(appended) + 1
    /\ Len(sensorData') <= Len(sensorData) + 1
    /\ (inflight' # inflight /\ appended' # appended) =>
          InFlight' = InFlight - 1

\* C23: each inbound HTTP request and each poll cycle appends at most one
\* reading: no request is ingested by two handlers, the catch-all of v11
\* answering without passing the request on and the catch-all of v7 only
\* logging and passing it on, and a poll cycle with up to three fetch
\* attempts stores at most once.
C23_AtMostOneAppend == [][AppendsOnce]_vars /\ []OneHandlerIngests

\* in v11 a poll cycle has stored a reading, and then a POST to
\* /api/ecowitt, for which a dedicated route is registered behind the
\* catch-all, has stored exactly one more
C23_Witness ==
    /\ rev = "v11"
    /\ Len(appended) = 2
    /\ appended[1].raw.shape = "nested"
    /\ appended[2].raw = TempFlat
    /\ lastRawData.path = "/api/ecowitt"
    /\ res.op = "ingest"
    /\ res.status = 200
    /\ Dedicated(rev, "POST", "/api/ecowitt") = "postEcowitt"
    /\ Ran(rev, "POST", "/api/ecowitt") = <<"catchAll">>

====
